---- MODULE Spec2Model ----
(***************************************************************************)
(* Model of passman.py, a JSON-backed credential store.                    *)
(*                                                                         *)
(* Python strings are modelled as sequences of one-character strings, so   *)
(* that strip(), lower(), the substring test and string comparison are     *)
(* computed character by character.  The store's "entries" dict is a       *)
(* sequence of records in insertion order (a Python dict keeps insertion   *)
(* order); each record carries its key in the field "site".                *)
(* sys.exit(msg) ends the call where it stands: the document keeps         *)
(* whatever was assigned before it, and the message is the call's outcome. *)
(***************************************************************************)
EXTENDS Integers, Sequences, FiniteSets, TLC

VARIABLES store, clock, call, outcome, ret, raw, verdict, disk

vars == <<store, clock, call, outcome, ret, raw, verdict, disk>>

(* ------------------------------ bounds --------------------------------- *)

\* Last instant of the modelled time window, in clock ticks.
MaxClock == 2
\* Clock ticks per second: the clock is finer than the second it is printed to.
TicksPerSecond == 2

(* ------------------------------ strings -------------------------------- *)

\* Python's None, as a value no string of characters equals.
None == <<"None">>

Whitespace == {" "}

\* str.lower() on one character.
LowerChar(c) == CASE c = "A" -> "a" [] c = "B" -> "b" [] OTHER -> c

\* str.lower()
Lower(s) == [i \in 1..Len(s) |-> LowerChar(s[i])]

RECURSIVE LStrip(_)
LStrip(s) == IF s # <<>> /\ Head(s) \in Whitespace THEN LStrip(Tail(s)) ELSE s

RECURSIVE RStrip(_)
RStrip(s) == IF s # <<>> /\ s[Len(s)] \in Whitespace
             THEN RStrip(SubSeq(s, 1, Len(s) - 1)) ELSE s

\* str.strip()
Strip(s) == RStrip(LStrip(s))

\* Code point of a character, the order Python compares strings by.
CharCode(c) == CASE c = " " -> 32 [] c = "A" -> 65 [] c = "B" -> 66
                 [] c = "a" -> 97 [] c = "b" -> 98 [] c = "p" -> 112
                 [] c = "q" -> 113 [] c = ":" -> 58 [] c = "Z" -> 90
                 [] c \in {"0", "1", "2", "3", "4", "5", "6", "7", "8", "9"}
                    -> 47 + (CHOOSE i \in 1..10 :
                                <<"0", "1", "2", "3", "4", "5", "6", "7", "8", "9">>[i] = c)
                 [] OTHER -> 0

\* a < b on Python strings.
RECURSIVE StrLess(_, _)
StrLess(a, b) ==
    IF b = <<>> THEN FALSE
    ELSE IF a = <<>> THEN TRUE
    ELSE IF Head(a) = Head(b) THEN StrLess(Tail(a), Tail(b))
    ELSE CharCode(Head(a)) < CharCode(Head(b))

\* k in s on Python strings: k is a contiguous part of s.
Contains(s, k) ==
    \E i \in 1..(Len(s) - Len(k) + 1) : SubSeq(s, i, i + Len(k) - 1) = k

\* list.sort() on a list of strings, as an insertion sort.
RECURSIVE InsertSorted(_, _)
InsertSorted(x, sorted) ==
    IF sorted = <<>> THEN <<x>>
    ELSE IF StrLess(x, Head(sorted)) THEN <<x>> \o sorted
    ELSE <<Head(sorted)>> \o InsertSorted(x, Tail(sorted))

RECURSIVE SortStrings(_)
SortStrings(l) ==
    IF l = <<>> THEN <<>>
    ELSE InsertSorted(l[Len(l)], SortStrings(SubSeq(l, 1, Len(l) - 1)))

(* ------------------------------- clock --------------------------------- *)

DigitChars == <<"0", "1", "2", "3", "4", "5", "6", "7", "8", "9">>

TwoDigits(n) == <<DigitChars[(n \div 10) + 1], DigitChars[(n % 10) + 1]>>

\* strftime("%Y-%m-%dT%H:%M:%SZ") of the instant t (in ticks): the instant is
\* cut to whole seconds; the window lies within one hour, so the date and
\* hour fields are the same for every instant and only "%M:%SZ" is kept.
current_time_in_ISO8601(t) ==
    LET sec == t \div TicksPerSecond
    IN  TwoDigits((sec \div 60) % 60) \o <<":">> \o TwoDigits(sec % 60) \o <<"Z">>

now_iso(t) == current_time_in_ISO8601(t)

(* ------------------------------- inputs -------------------------------- *)

\* Raw site arguments: the empty string, and two spellings of one site that
\* differ in letter case and in surrounding blanks.
RawSites == {<<>>, <<"A", "b">>, <<" ", "a", "B", " ">>}

\* A site argument may be absent.
SiteArgs == RawSites \cup {None}

\* Credentials given to add: always strings (positional arguments).
AddUsernames == {<<>>, <<"A">>, <<"b">>}

AddPasswords == {<<>>, <<"p">>}

\* Credentials given to update: absent when the option is not given.
UpdateUsernames == {None, <<>>, <<"b">>}

UpdatePasswords == {None, <<>>, <<"q">>}

KeywordArgs == {None, <<>>, <<"A">>, <<"b">>, <<"b", "a">>}

(* ------------------------------- engine -------------------------------- *)

normalize_site(s) == Lower(Strip(s))

\* Position of key k in the entries, 0 when it is not a key.
IndexOf(entries, k) ==
    IF \E i \in 1..Len(entries) : entries[i].site = k
    THEN CHOOSE i \in 1..Len(entries) : entries[i].site = k
    ELSE 0

HasKey(entries, k) == IndexOf(entries, k) # 0

\* "not x" on an optional string: None and "" are falsy.
Falsy(x) == x = None \/ x = <<>>

\* The dict init_store builds; t1 and t2 are its two readings of the clock.
init_store(t1, t2) ==
    [metadata |-> [version |-> 1,
                   created_at |-> current_time_in_ISO8601(t1),
                   updated_at |-> current_time_in_ISO8601(t2),
                   count |-> 0],
     entries |-> <<>>]

\* Result of a call: the document as the call leaves it, the outcome ("ok"
\* or the sys.exit message), the value returned and the clock readings made.
Result(s, o, r, n) == [store |-> s, outcome |-> o, ret |-> r, reads |-> n]

\* add_entry looking the raw site up instead of the normalized key.
\* add_entry leaving metadata.count as it was.
add_entry_stale_count(st, site, username, password, t1, t2) ==
    IF site = None THEN Result(st, "add: site is required.", <<>>, 0)
    ELSE LET site_key == normalize_site(site) IN
    IF Falsy(username) \/ Falsy(password)
    THEN Result(st, "add: username and password cannot be empty.", <<>>, 0)
    ELSE IF HasKey(st.entries, site_key)
    THEN Result(st, "add: entry already exists. Use 'update' instead.", <<>>, 0)
    ELSE LET entries == Append(st.entries,
                               [site |-> site_key, username |-> username,
                                password |-> password, last_updated |-> now_iso(t1)])
         IN Result([metadata |-> [st.metadata EXCEPT !.updated_at = now_iso(t2)],
                    entries |-> entries],
                   "ok", <<>>, 2)

add_entry_raw_lookup(st, site, username, password, t1, t2) ==
    IF site = None THEN Result(st, "add: site is required.", <<>>, 0)
    ELSE LET site_key == normalize_site(site) IN
    IF Falsy(username) \/ Falsy(password)
    THEN Result(st, "add: username and password cannot be empty.", <<>>, 0)
    ELSE IF HasKey(st.entries, site)
    THEN Result(st, "add: entry already exists. Use 'update' instead.", <<>>, 0)
    ELSE LET entries == Append(st.entries,
                               [site |-> site_key, username |-> username,
                                password |-> password, last_updated |-> now_iso(t1)])
         IN Result([metadata |-> [st.metadata EXCEPT !.count = Len(entries),
                                                     !.updated_at = now_iso(t2)],
                    entries |-> entries],
                   "ok", <<>>, 2)

add_entry(st, site, username, password, t1, t2) ==
    IF site = None THEN Result(st, "add: site is required.", <<>>, 0)
    ELSE LET site_key == normalize_site(site) IN
    IF Falsy(username) \/ Falsy(password)
    THEN Result(st, "add: username and password cannot be empty.", <<>>, 0)
    ELSE IF HasKey(st.entries, site_key)
    THEN Result(st, "add: entry already exists. Use 'update' instead.", <<>>, 0)
    ELSE LET entries == Append(st.entries,
                               [site |-> site_key, username |-> username,
                                password |-> password, last_updated |-> now_iso(t1)])
         IN Result([metadata |-> [st.metadata EXCEPT !.count = Len(entries),
                                                     !.updated_at = now_iso(t2)],
                    entries |-> entries],
                   "ok", <<>>, 2)

\* get_entry rejecting every falsy site ("if not site") instead of None alone.
get_entry_rejects_empty(st, site) ==
    IF Falsy(site) THEN Result(st, "get: site is required.", <<>>, 0)
    ELSE LET site_key == normalize_site(site)
             i == IndexOf(st.entries, site_key)
         IN Result(st, "ok", IF i = 0 THEN <<>> ELSE <<st.entries[i]>>, 0)

\* get_entry looking the raw site up instead of the normalized key.
get_entry_raw_lookup(st, site) ==
    IF site = None THEN Result(st, "get: site is required.", <<>>, 0)
    ELSE LET i == IndexOf(st.entries, site)
         IN Result(st, "ok", IF i = 0 THEN <<>> ELSE <<st.entries[i]>>, 0)

get_entry(st, site) ==
    IF site = None THEN Result(st, "get: site is required.", <<>>, 0)
    ELSE LET site_key == normalize_site(site)
             i == IndexOf(st.entries, site_key)
         IN Result(st, "ok", IF i = 0 THEN <<>> ELSE <<st.entries[i]>>, 0)

\* update_entry assigning the password without the "is not None" guard.
update_entry_unguarded_password(st, site, username, password, t1, t2) ==
    IF site = None THEN Result(st, "update: site is required.", <<>>, 0)
    ELSE IF username = None /\ password = None
    THEN Result(st, "update: nothing to update.", <<>>, 0)
    ELSE LET site_key == normalize_site(site)
             i == IndexOf(st.entries, site_key) IN
    IF i = 0 THEN Result(st, "update: no entry found.", <<>>, 0)
    ELSE IF username # None /\ username = <<>>
    THEN Result(st, "update: username cannot be empty.", <<>>, 0)
    ELSE LET e1 == IF username # None
                   THEN [st.entries EXCEPT ![i].username = username]
                   ELSE st.entries IN
    IF password = <<>>
    THEN Result([st EXCEPT !.entries = e1], "update: password cannot be empty.", <<>>, 0)
    ELSE LET e2 == [e1 EXCEPT ![i].password = password]
             e3 == [e2 EXCEPT ![i].last_updated = now_iso(t1)]
         IN Result([metadata |-> [st.metadata EXCEPT !.updated_at = now_iso(t2)],
                    entries |-> e3],
                   "ok", <<>>, 2)

update_entry(st, site, username, password, t1, t2) ==
    IF site = None THEN Result(st, "update: site is required.", <<>>, 0)
    ELSE IF username = None /\ password = None
    THEN Result(st, "update: nothing to update.", <<>>, 0)
    ELSE LET site_key == normalize_site(site)
             i == IndexOf(st.entries, site_key) IN
    IF i = 0 THEN Result(st, "update: no entry found.", <<>>, 0)
    ELSE IF username # None /\ username = <<>>
    THEN Result(st, "update: username cannot be empty.", <<>>, 0)
    ELSE LET e1 == IF username # None
                   THEN [st.entries EXCEPT ![i].username = username]
                   ELSE st.entries IN
    IF password # None /\ password = <<>>
    THEN Result([st EXCEPT !.entries = e1], "update: password cannot be empty.", <<>>, 0)
    ELSE LET e2 == IF password # None
                   THEN [e1 EXCEPT ![i].password = password]
                   ELSE e1
             e3 == [e2 EXCEPT ![i].last_updated = now_iso(t1)]
         IN Result([metadata |-> [st.metadata EXCEPT !.updated_at = now_iso(t2)],
                    entries |-> e3],
                   "ok", <<>>, 2)

\* delete_entry that does not refresh metadata.updated_at.
delete_entry_stale_updated_at(st, site, t1) ==
    IF site = None THEN Result(st, "delete: site is required.", <<>>, 0)
    ELSE LET site_key == normalize_site(site)
             i == IndexOf(st.entries, site_key) IN
    IF i = 0 THEN Result(st, "delete: no entry found.", <<>>, 0)
    ELSE LET entries == SubSeq(st.entries, 1, i - 1)
                        \o SubSeq(st.entries, i + 1, Len(st.entries))
         IN Result([metadata |-> [st.metadata EXCEPT !.count = Len(entries)],
                    entries |-> entries],
                   "ok", <<>>, 1)

\* delete_entry that does not recompute metadata.count.
delete_entry_stale_count(st, site, t1) ==
    IF site = None THEN Result(st, "delete: site is required.", <<>>, 0)
    ELSE LET site_key == normalize_site(site)
             i == IndexOf(st.entries, site_key) IN
    IF i = 0 THEN Result(st, "delete: no entry found.", <<>>, 0)
    ELSE LET entries == SubSeq(st.entries, 1, i - 1)
                        \o SubSeq(st.entries, i + 1, Len(st.entries))
         IN Result([metadata |-> [st.metadata EXCEPT !.updated_at = now_iso(t1)],
                    entries |-> entries],
                   "ok", <<>>, 1)

delete_entry(st, site, t1) ==
    IF site = None THEN Result(st, "delete: site is required.", <<>>, 0)
    ELSE LET site_key == normalize_site(site)
             i == IndexOf(st.entries, site_key) IN
    IF i = 0 THEN Result(st, "delete: no entry found.", <<>>, 0)
    ELSE LET entries == SubSeq(st.entries, 1, i - 1)
                        \o SubSeq(st.entries, i + 1, Len(st.entries))
         IN Result([metadata |-> [st.metadata EXCEPT !.count = Len(entries),
                                                     !.updated_at = now_iso(t1)],
                    entries |-> entries],
                   "ok", <<>>, 1)

\* The loop of search_entries: the keys of the matching entries, in dict order.
RECURSIVE SearchHits(_, _)
SearchHits(entries, k) ==
    IF entries = <<>> THEN <<>>
    ELSE LET rec == Head(entries)
             rest == SearchHits(Tail(entries), k)
         IN IF Contains(Lower(rec.site), k) \/ Contains(Lower(rec.username), k)
            THEN <<rec.site>> \o rest
            ELSE rest

\* search_entries without the final hits.sort().
search_entries_unsorted(st, keyword) ==
    IF Falsy(keyword) THEN Result(st, "ok", <<>>, 0)
    ELSE Result(st, "ok", SearchHits(st.entries, Lower(keyword)), 0)

search_entries(st, keyword) ==
    IF Falsy(keyword) THEN Result(st, "ok", <<>>, 0)
    ELSE Result(st, "ok", SortStrings(SearchHits(st.entries, Lower(keyword))), 0)

(* ------------------------------ validator ------------------------------ *)

\* Largest number of entries in a loaded document.
MaxLoadedEntries == 1

\* A decoded JSON value carries its Python type: int, bool, str, list, dict.
\* A dict's value is a function from its keys; the entries dict is the
\* sequence of its items in file order, [site |-> key, rec |-> value].
JInt(n) == [t |-> "int", v |-> n]
JBool(b) == [t |-> "bool", v |-> b]
JStr(x) == [t |-> "str", v |-> x]
JList == [t |-> "list", v |-> <<>>]
JDict(f) == [t |-> "dict", v |-> f]

\* isinstance(x, typ): bool is a subclass of int in Python.
IsInstance(x, typ) ==
    CASE typ = "int" -> x.t \in {"int", "bool"}
      [] OTHER -> x.t = typ

\* The number an int instance compares as: True is 1 and False is 0.
IntOf(x) == IF x.t = "bool" THEN (IF x.v THEN 1 ELSE 0) ELSE x.v

Verdict(msg, site, key) == [msg |-> msg, site |-> site, key |-> key]

Accepted == Verdict("ok", <<>>, "")

Pending == Verdict("none", <<>>, "")

MetaFields == <<[key |-> "version", typ |-> "int"],
                [key |-> "created_at", typ |-> "str"],
                [key |-> "updated_at", typ |-> "str"],
                [key |-> "count", typ |-> "int"]>>

RecordFields == <<[key |-> "username", typ |-> "str"],
                  [key |-> "password", typ |-> "str"],
                  [key |-> "last_updated", typ |-> "str"]>>

\* The loop over the required fields of a dict d: the first failure, or
\* Accepted; "missing" and "wrong" are the two messages of the loop.
RECURSIVE CheckFields(_, _, _, _, _)
CheckFields(d, fields, site, missing, wrong) ==
    IF fields = <<>> THEN Accepted
    ELSE LET f == Head(fields) IN
         IF f.key \notin DOMAIN d THEN Verdict(missing, site, f.key)
         ELSE IF ~IsInstance(d[f.key], f.typ) THEN Verdict(wrong, site, f.key)
         ELSE CheckFields(d, Tail(fields), site, missing, wrong)

\* The loop over entries.items(): the first failure, or Accepted.  A key
\* decoded from JSON is always a string.
RECURSIVE CheckEntries(_, _)
CheckEntries(items, fields) ==
    IF items = <<>> THEN Accepted
    ELSE LET site == Head(items).site
             rec == Head(items).rec IN
         IF ~IsInstance(rec, "dict")
         THEN Verdict("Invalid store schema: entry is not an object.", site, "")
         ELSE LET r == CheckFields(rec.v, fields, site,
                                   "Invalid store schema: entry missing field.",
                                   "Invalid store schema: entry field has wrong type.")
              IN IF r # Accepted THEN r ELSE CheckEntries(Tail(items), fields)

\* validate_store_schema with the required record fields as a parameter.
ValidateWith(doc, fields) ==
    IF ~IsInstance(doc, "dict")
    THEN Verdict("Invalid store schema: top-level is not an object.", <<>>, "")
    ELSE IF "metadata" \notin DOMAIN doc.v \/ "entries" \notin DOMAIN doc.v
    THEN Verdict("Invalid store schema: missing 'metadata' or 'entries'.", <<>>, "")
    ELSE LET meta == doc.v["metadata"]
             entries == doc.v["entries"] IN
    IF ~IsInstance(meta, "dict") \/ ~IsInstance(entries, "dict")
    THEN Verdict("Invalid store schema: 'metadata' or 'entries' is not an object.", <<>>, "")
    ELSE LET m == CheckFields(meta.v, MetaFields, <<>>,
                              "Invalid store schema: metadata missing field.",
                              "Invalid store schema: metadata field has wrong type.") IN
    IF m # Accepted THEN m
    ELSE LET e == CheckEntries(entries.v, fields) IN
    IF e # Accepted THEN e
    ELSE IF IntOf(meta.v["count"]) # Len(entries.v)
    THEN Verdict("Invalid store schema: metadata.count does not match number of entries.",
                 <<>>, "")
    ELSE Accepted

\* validate_store_schema that leaves "password" out of the required fields.
validate_store_schema_skips_password(doc) ==
    ValidateWith(doc, <<RecordFields[1], RecordFields[3]>>)

validate_store_schema(doc) == ValidateWith(doc, RecordFields)

(* --------------------------- loaded documents -------------------------- *)

Missing == [t |-> "missing", v |-> 0]

\* The dict of the fields that are present among the choices c.
DictOf(c) == JDict([k \in {x \in DOMAIN c : c[x] # Missing} |-> c[k]])

LoadedTime == JStr(current_time_in_ISO8601(0))

LoadedMetas ==
    {JStr(<<>>)} \cup
    {DictOf([version |-> a, created_at |-> b, updated_at |-> c, count |-> d]) :
        a \in {Missing, JInt(1), JStr(<<"1">>)},
        b \in {Missing, LoadedTime, JInt(0)},
        c \in {LoadedTime, JInt(0)},
        d \in {Missing, JInt(0), JInt(1), JInt(2), JBool(TRUE), JStr(<<"1">>)}}

LoadedRecords ==
    {JList} \cup
    {DictOf([username |-> u, password |-> p, last_updated |-> l]) :
        u \in {Missing, JInt(0), JStr(<<>>), JStr(<<"A">>)},
        p \in {JInt(0), JStr(<<>>), JStr(<<"p">>)},
        l \in {Missing, LoadedTime, JInt(0)}}

LoadedSites == {<<>>, <<"a">>}

\* The items of an entries dict: distinct keys, at most MaxLoadedEntries.
LoadedItems ==
    UNION {{items \in [1..n -> [site : LoadedSites, rec : LoadedRecords]] :
               \A i, j \in 1..n : i # j => items[i].site # items[j].site} :
           n \in 0..MaxLoadedEntries}

LoadedEntries == {JList} \cup {JDict(items) : items \in LoadedItems}

\* What load_store may return: any decoded JSON value.
LoadedDocuments ==
    {JList} \cup
    {JDict([metadata |-> m]) : m \in {JDict(<<>>)}} \cup
    {JDict([metadata |-> m, entries |-> e]) : m \in LoadedMetas, e \in LoadedEntries}

(* ----------------------------- persistence ----------------------------- *)

\* The store file: absent, or its text.  The text json.dump writes stands
\* for the JSON value it encodes (its layout is fixed: indent=2, keys in dict
\* order); the text csv.writer writes is the list of its rows.
NoFile == [t |-> "absent", v |-> 0]

\* No document has been loaded.
NoDocument == [t |-> "null", v |-> 0]

CsvText(rows) == [t |-> "csv", v |-> rows]

\* json.dump(store): every value is written with its Python type.
json_dump(st) ==
    JDict([metadata |->
             JDict([version |-> JInt(st.metadata.version),
                    created_at |-> JStr(st.metadata.created_at),
                    updated_at |-> JStr(st.metadata.updated_at),
                    count |-> JInt(st.metadata.count)]),
           entries |->
             JDict([i \in 1..Len(st.entries) |->
                      [site |-> st.entries[i].site,
                       rec |-> JDict([username |-> JStr(st.entries[i].username),
                                      password |-> JStr(st.entries[i].password),
                                      last_updated |-> JStr(st.entries[i].last_updated)])]])])

\* load_store: the decoded document, or the message it exits with.  Text
\* that csv.writer wrote starts with the header row and is not JSON.
load_store(file) ==
    IF file.t = "absent"
    THEN [outcome |-> "Store file not found. Run 'init' first.", doc |-> file]
    ELSE IF file.t = "csv"
    THEN [outcome |-> "Store file is corrupted. Restore or re-init.", doc |-> file]
    ELSE [outcome |-> "ok", doc |-> file]

\* The dict the engine works on, for a document the validator has accepted.
AsStore(doc) ==
    LET meta == doc.v["metadata"].v
        items == doc.v["entries"].v
    IN [metadata |-> [version |-> meta["version"].v,
                      created_at |-> meta["created_at"].v,
                      updated_at |-> meta["updated_at"].v,
                      count |-> meta["count"].v],
        entries |-> [i \in 1..Len(items) |->
                       [site |-> items[i].site,
                        username |-> items[i].rec.v["username"].v,
                        password |-> items[i].rec.v["password"].v,
                        last_updated |-> items[i].rec.v["last_updated"].v]]]

\* save_store: refreshes metadata.updated_at from a reading t of the clock;
\* the document it then writes.
save_store(st, t) == [st EXCEPT !.metadata.updated_at = now_iso(t)]

(* ------------------------------- queries -------------------------------- *)

\* rows.sort(key=lambda t: t[col]): a stable sort of tuples on one column.
RECURSIVE InsertRow(_, _, _)
InsertRow(x, sorted, col) ==
    IF sorted = <<>> THEN <<x>>
    ELSE IF StrLess(x[col], Head(sorted)[col]) THEN <<x>> \o sorted
    ELSE <<Head(sorted)>> \o InsertRow(x, Tail(sorted), col)

RECURSIVE SortRows(_, _)
SortRows(rows, col) ==
    IF rows = <<>> THEN <<>>
    ELSE InsertRow(rows[Len(rows)], SortRows(SubSeq(rows, 1, Len(rows) - 1), col), col)

list_entries(st, sort_key) ==
    LET rows == [i \in 1..Len(st.entries) |->
                   <<st.entries[i].site, st.entries[i].username,
                     st.entries[i].last_updated>>]
    IN Result(st, "ok",
              IF sort_key = "last_updated" THEN SortRows(rows, 3) ELSE SortRows(rows, 1),
              0)

\* min() and max() of a non-empty list of strings.
MinString(l) == CHOOSE x \in {l[i] : i \in 1..Len(l)} :
                    \A i \in 1..Len(l) : ~StrLess(l[i], x)

MaxString(l) == CHOOSE x \in {l[i] : i \in 1..Len(l)} :
                    \A i \in 1..Len(l) : ~StrLess(x, l[i])

RECURSIVE Sum(_)
Sum(l) == IF l = <<>> THEN 0 ELSE Head(l) + Sum(Tail(l))

\* stats: the average is the fraction sum/len, kept as its two terms.
stats(st) ==
    LET total == Len(st.entries) IN
    IF total = 0
    THEN Result(st, "ok", <<[count |-> 0, oldest |-> None, newest |-> None,
                             avg_password_length |-> <<0, 1>>]>>, 0)
    ELSE LET times == [i \in 1..total |-> st.entries[i].last_updated]
             pw_lengths == [i \in 1..total |-> Len(st.entries[i].password)]
         IN Result(st, "ok", <<[count |-> total, oldest |-> MinString(times),
                                newest |-> MaxString(times),
                                avg_password_length |-> <<Sum(pw_lengths), Len(pw_lengths)>>]>>,
                   0)

\* export_csv: the text written to out_path and the number of data rows.
export_csv(st) ==
    [text |-> CsvText(<<<<"site", "username", "password", "last_updated">>>>
                      \o [i \in 1..Len(st.entries) |->
                            <<st.entries[i].site, st.entries[i].username,
                              st.entries[i].password, st.entries[i].last_updated>>]),
     count |-> Len(st.entries)]

(* ----------------------------- command line ----------------------------- *)

\* The default of --file, and another path.
StorePath == "store.json"

OtherPath == "export.csv"

\* A parsed command line: option is the value of --sort or of --out.
CliCall(op, site, username, password, keyword, option) ==
    [op |-> op, site |-> site, username |-> username, password |-> password,
     keyword |-> keyword, option |-> option]

\* The commands after which main calls save_store.
SavingCommands == {"add", "update", "delete"}

\* The branch of main for command c on the validated document st; ts are the
\* readings of the clock, in the order they are made.
Dispatch(st, c, ts) ==
    CASE c.op = "add" -> add_entry(st, c.site, c.username, c.password, ts[1], ts[2])
      [] c.op = "get" -> get_entry(st, c.site)
      [] c.op = "update" -> update_entry(st, c.site, c.username, c.password, ts[1], ts[2])
      [] c.op = "delete" -> delete_entry(st, c.site, ts[1])
      [] c.op = "list" -> list_entries(st, c.option)
      [] c.op = "search" -> search_entries(st, c.keyword)
      [] c.op = "export" -> Result(st, "ok", <<export_csv(st).count>>, 0)
      [] c.op = "stats" -> stats(st)

\* How a run of main ends: the store file, the document in memory, what was
\* loaded and the validator's verdict on it, the outcome, the value the
\* command computed and the number of clock readings made.
Exit(file, st, doc, v, o, r, n) ==
    [disk |-> file, store |-> st, raw |-> doc, verdict |-> v, outcome |-> o,
     ret |-> r, reads |-> n]

\* No document in memory: the run ended before load_store returned one.
Unloaded == [metadata |-> <<>>, entries |-> <<>>]

\* main on the store file "file".
main(file, c, ts) ==
    IF c.op = "init"
    THEN LET st == init_store(ts[1], ts[2])
         IN Exit(json_dump(st), st, NoDocument, Pending, "ok", <<>>, 2)
    ELSE LET l == load_store(file) IN
    IF l.outcome # "ok"
    THEN Exit(file, Unloaded, NoDocument, Pending, l.outcome, <<>>, 0)
    ELSE LET v == validate_store_schema(l.doc) IN
    IF v # Accepted
    THEN Exit(file, Unloaded, l.doc, v, v.msg, <<>>, 0)
    ELSE LET r == Dispatch(AsStore(l.doc), c, ts) IN
    IF r.outcome # "ok"
    THEN Exit(file, r.store, l.doc, v, r.outcome, r.ret, r.reads)
    ELSE IF c.op \in SavingCommands
    THEN LET saved == save_store(r.store, ts[r.reads + 1])
         IN Exit(json_dump(saved), saved, l.doc, v, "ok", r.ret, r.reads + 1)
    ELSE IF c.op = "export" /\ c.option = StorePath
    THEN Exit(export_csv(r.store).text, r.store, l.doc, v, "ok", r.ret, 0)
    ELSE Exit(file, r.store, l.doc, v, "ok", r.ret, r.reads)

(* ---------------------------- specification ---------------------------- *)

Call(op, site, username, password, keyword) ==
    [op |-> op, site |-> site, username |-> username, password |-> password,
     keyword |-> keyword]

\* A call has run: the document, the outcome and the returned value are the
\* call's; the clock stands at the call's last reading when it read the clock.
Finish(c, r, t) ==
    /\ store' = r.store
    /\ outcome' = r.outcome
    /\ ret' = r.ret
    /\ call' = c
    /\ clock' = IF r.reads = 0 THEN clock ELSE t
    /\ UNCHANGED <<raw, verdict, disk>>

Init ==
    /\ \E t1 \in 0..MaxClock : \E t2 \in t1..MaxClock :
          /\ store = init_store(t1, t2)
          /\ clock = t2
          /\ disk = json_dump(init_store(t1, t2))
    /\ call = Call("init", None, None, None, None)
    /\ outcome = "ok"
    /\ ret = <<>>
    /\ raw = NoDocument
    /\ verdict = Pending

\* A call that exits before it reads the clock leaves the clock alone; one
\* that reads it finds it at or after the instant it was last read at, and
\* each of its readings at or after the one before.
Add ==
    \E site \in SiteArgs, username \in AddUsernames, password \in AddPasswords :
        LET c == Call("add", site, username, password, None)
            r == add_entry(store, site, username, password, clock, clock)
        IN IF r.reads = 0 THEN Finish(c, r, clock)
           ELSE \E t1 \in clock..MaxClock : \E t2 \in t1..MaxClock :
                   Finish(c, add_entry(store, site, username, password, t1, t2), t2)

Get ==
    \E site \in SiteArgs :
        Finish(Call("get", site, None, None, None), get_entry(store, site), clock)

Update ==
    \E site \in SiteArgs, username \in UpdateUsernames, password \in UpdatePasswords :
        LET c == Call("update", site, username, password, None)
            r == update_entry(store, site, username, password, clock, clock)
        IN IF r.reads = 0 THEN Finish(c, r, clock)
           ELSE \E t1 \in clock..MaxClock : \E t2 \in t1..MaxClock :
                   Finish(c, update_entry(store, site, username, password, t1, t2), t2)

Delete ==
    \E site \in SiteArgs :
        LET c == Call("delete", site, None, None, None)
            r == delete_entry(store, site, clock)
        IN IF r.reads = 0 THEN Finish(c, r, clock)
           ELSE \E t1 \in clock..MaxClock :
                   Finish(c, delete_entry(store, site, t1), t1)

Search ==
    \E keyword \in KeywordArgs :
        Finish(Call("search", None, None, None, keyword),
               search_entries(store, keyword), clock)

Next == Add \/ Get \/ Update \/ Delete \/ Search

Spec == Init /\ [][Next]_vars

\* Loading: main loads a document from the file and validates it before it
\* dispatches the command; the engine has not been called.
InitLoad ==
    /\ raw \in LoadedDocuments
    /\ verdict = Pending
    /\ store = init_store(0, 0)
    /\ clock = 0
    /\ call = Call("load", None, None, None, None)
    /\ outcome = "ok"
    /\ ret = <<>>
    /\ disk = raw

Validate ==
    /\ verdict = Pending
    /\ verdict' = validate_store_schema(raw)
    /\ UNCHANGED <<raw, store, clock, call, outcome, ret, disk>>

NextLoad == Validate

SpecLoad == InitLoad /\ [][NextLoad]_vars

(* One run of the program per step: only the store file and the clock      *)
(* outlive a run; the other variables show how the last run ended.         *)

\* The store file before the first run: absent, or a document the validator
\* rejects (no metadata.count; a count that is not the number of entries).
InitialFiles ==
    {NoFile,
     JDict([metadata |-> JDict([version |-> JInt(1), created_at |-> LoadedTime,
                                updated_at |-> LoadedTime]),
            entries |-> JDict(<<>>)]),
     JDict([metadata |-> JDict([version |-> JInt(1), created_at |-> LoadedTime,
                                updated_at |-> LoadedTime, count |-> JInt(1)]),
            entries |-> JDict(<<>>)])}

\* Command-line arguments: argparse hands main strings, and None only for an
\* option that was not given.
CliSites == {<<" ", "a", "B", " ">>, <<"b">>}

CliUsernames == {<<>>, <<"A">>}

CliKeywords == {<<>>, <<"b">>}

InitCli ==
    /\ disk \in InitialFiles
    /\ clock = 0
    /\ store = Unloaded
    /\ raw = NoDocument
    /\ verdict = Pending
    /\ call = CliCall("none", None, None, None, None, None)
    /\ outcome = "ok"
    /\ ret = <<>>

\* The n readings a run makes of the clock, in order, none of them before
\* the last reading of the run before it.
Readings(n) ==
    {ts \in [1..n -> clock..MaxClock] : \A i \in 1..(n - 1) : ts[i] <= ts[i + 1]}

\* The ways a run of main on command line c can end, each with the clock
\* as the run leaves it.  How many readings a run makes does not depend on
\* what they are.
Runs(c) ==
    UNION {{[exit |-> IF r0.reads = 0 THEN r0 ELSE main(disk, c, ts),
             now |-> IF r0.reads = 0 THEN clock ELSE ts[r0.reads]] :
            ts \in Readings(r0.reads)} :
           r0 \in {main(disk, c, <<clock, clock, clock>>)}}

FinishRun(c, x) ==
    /\ disk' = x.exit.disk
    /\ store' = x.exit.store
    /\ raw' = x.exit.raw
    /\ verdict' = x.exit.verdict
    /\ outcome' = x.exit.outcome
    /\ ret' = x.exit.ret
    /\ call' = c
    /\ clock' = x.now

CliInit ==
    \E x \in Runs(CliCall("init", None, None, None, None, None)) :
        FinishRun(CliCall("init", None, None, None, None, None), x)

CliAdd ==
    \E site \in CliSites, username \in CliUsernames, password \in AddPasswords :
        \E x \in Runs(CliCall("add", site, username, password, None, None)) :
            FinishRun(CliCall("add", site, username, password, None, None), x)

CliGet ==
    \E site \in CliSites :
        \E x \in Runs(CliCall("get", site, None, None, None, None)) :
            FinishRun(CliCall("get", site, None, None, None, None), x)

CliUpdate ==
    \E site \in CliSites, username \in UpdateUsernames, password \in UpdatePasswords :
        \E x \in Runs(CliCall("update", site, username, password, None, None)) :
            FinishRun(CliCall("update", site, username, password, None, None), x)

CliDelete ==
    \E site \in CliSites :
        \E x \in Runs(CliCall("delete", site, None, None, None, None)) :
            FinishRun(CliCall("delete", site, None, None, None, None), x)

CliList ==
    \E sort \in {"site", "last_updated"} :
        \E x \in Runs(CliCall("list", None, None, None, None, sort)) :
            FinishRun(CliCall("list", None, None, None, None, sort), x)

CliSearch ==
    \E keyword \in CliKeywords :
        \E x \in Runs(CliCall("search", None, None, None, keyword, None)) :
            FinishRun(CliCall("search", None, None, None, keyword, None), x)

CliExport ==
    \E out \in {StorePath, OtherPath} :
        \E x \in Runs(CliCall("export", None, None, None, None, out)) :
            FinishRun(CliCall("export", None, None, None, None, out), x)

CliStats ==
    \E x \in Runs(CliCall("stats", None, None, None, None, None)) :
        FinishRun(CliCall("stats", None, None, None, None, None), x)

NextCli ==
    \/ CliInit \/ CliAdd \/ CliGet \/ CliUpdate \/ CliDelete
    \/ CliList \/ CliSearch \/ CliExport \/ CliStats

SpecCli == InitCli /\ [][NextCli]_vars

(* ------------------------------- claims -------------------------------- *)

Keys(entries) == {entries[i].site : i \in 1..Len(entries)}

Mutating == {"add", "update", "delete"}

DuplicateError == "add: entry already exists. Use 'update' instead."

\* C1: after every call, successful or failing, on the document created by
\* init, metadata.count equals the number of keys in entries.
C1_CountMatchesEntries ==
    store.metadata.count = Cardinality(Keys(store.entries))

\* A delete has succeeded and left one entry behind.
C1_Witness ==
    /\ call.op = "delete" /\ outcome = "ok"
    /\ store.metadata.count = 1

\* C2: a failing add, update or delete leaves the document as it was before
\* the call.
C2_FailedCallLeavesDocument ==
    [][(call'.op \in Mutating /\ outcome' # "ok") => store' = store]_vars

\* C3 as claimed: an add of a site whose normalized key is already in entries
\* fails with the duplicate error and leaves the document unchanged.
C3_DuplicateAddIsDuplicateError ==
    [][(/\ call'.op = "add" /\ call'.site # None
        /\ normalize_site(call'.site) \in Keys(store.entries))
       => (outcome' = DuplicateError /\ store' = store)]_vars

\* C3 as amended: an add of a site whose normalized key is already in
\* entries, whatever the case or padding of the raw site, fails and leaves
\* the document unchanged; it fails with the duplicate error when username
\* and password are both non-empty, and with the empty-credential error
\* otherwise.
C3_AddNeverOverwrites ==
    [][(/\ call'.op = "add" /\ call'.site # None
        /\ normalize_site(call'.site) \in Keys(store.entries))
       => /\ store' = store
          /\ outcome' = IF call'.username = <<>> \/ call'.password = <<>>
                        THEN "add: username and password cannot be empty."
                        ELSE DuplicateError]_vars

\* An add of a raw site that differs from its stored key has failed as a
\* duplicate.
C3_Witness ==
    /\ call.op = "add" /\ outcome = DuplicateError
    /\ call.site # normalize_site(call.site)
    /\ normalize_site(call.site) \in Keys(store.entries)

\* The value get returns for a raw site: the record's credentials, or <<>>.
Credentials(r) == IF r = <<>> THEN <<>> ELSE <<r[1].username, r[1].password>>

\* C4: after a successful add(S, u, p), get(S2) returns username u and
\* password p for every S2 that normalizes to the key of S, and goes on
\* doing so over every call that is not an update or delete of that key
\* (a call that leaves the entries as they were cannot change what get
\* returns, so only the calls that change them are looked at).
C4_AddGetRoundTrip ==
    [][/\ (call'.op = "add" /\ outcome' = "ok")
          => \A s2 \in RawSites :
                normalize_site(s2) = normalize_site(call'.site)
                => Credentials(get_entry(store', s2).ret)
                     = <<call'.username, call'.password>>
       /\ store'.entries # store.entries
          => \A s2 \in RawSites :
                (/\ get_entry(store, s2).ret # <<>>
                 /\ ~(/\ call'.op \in {"update", "delete"} /\ call'.site # None
                      /\ normalize_site(call'.site) = normalize_site(s2)))
                => Credentials(get_entry(store', s2).ret)
                     = Credentials(get_entry(store, s2).ret)]_vars

\* A get has found a record under a raw site that is not the stored key.
C4_Witness ==
    /\ call.op = "get" /\ outcome = "ok" /\ ret # <<>>
    /\ call.site # ret[1].site
    /\ Len(store.entries) = 2

\* C5: a successful update that supplies only one of username/password
\* changes only that field of the addressed record: the other credential,
\* every other record, the keys and their order, metadata.count, version and
\* created_at are unchanged; the record's last_updated is a reading of the
\* clock made during the call and metadata.updated_at is the last one.
C5_PartialUpdateFrame ==
    [][(/\ call'.op = "update" /\ outcome' = "ok"
        /\ (call'.username = None) # (call'.password = None))
       => /\ Len(store'.entries) = Len(store.entries)
          /\ store'.metadata.count = store.metadata.count
          /\ store'.metadata.version = store.metadata.version
          /\ store'.metadata.created_at = store.metadata.created_at
          /\ store'.metadata.updated_at = current_time_in_ISO8601(clock')
          /\ \E i \in 1..Len(store.entries) :
                /\ store.entries[i].site = normalize_site(call'.site)
                /\ \A j \in 1..Len(store.entries) :
                      j # i => store'.entries[j] = store.entries[j]
                /\ store'.entries[i].site = store.entries[i].site
                /\ store'.entries[i].username =
                      IF call'.username = None THEN store.entries[i].username
                      ELSE call'.username
                /\ store'.entries[i].password =
                      IF call'.password = None THEN store.entries[i].password
                      ELSE call'.password
                /\ \E t \in clock..clock' :
                      store'.entries[i].last_updated = current_time_in_ISO8601(t)
      ]_vars

\* An update of the username alone has succeeded on a store of two entries,
\* at a later second than the one the store was created in.
C5_Witness ==
    /\ call.op = "update" /\ outcome = "ok"
    /\ call.username # None /\ call.password = None
    /\ Len(store.entries) = 2
    /\ store.metadata.updated_at # store.metadata.created_at
    /\ \E i \in 1..2 : /\ store.entries[i].site = normalize_site(call.site)
                        /\ store.entries[i].username = call.username

\* C7 as claimed: get fails with the validation error when the site is
\* absent or the empty string.
C7_GetRejectsEmptySite ==
    (call.op = "get" /\ (call.site = None \/ call.site = <<>>))
    => outcome = "get: site is required."

\* C7 as amended: get fails only when the site is absent; for every site
\* string, the empty one included, it returns the record stored under the
\* normalized key, or not-found when there is none.
C7_GetFailsOnlyOnAbsentSite ==
    call.op = "get"
    => IF call.site = None
       THEN outcome = "get: site is required."
       ELSE /\ outcome = "ok"
            /\ LET found == {i \in 1..Len(store.entries) :
                               store.entries[i].site = normalize_site(call.site)}
               IN IF found = {} THEN ret = <<>>
                  ELSE \E i \in found : ret = <<store.entries[i]>>

\* A get of the empty site string has returned the record stored under the
\* empty key.
C7_Witness ==
    /\ call.op = "get" /\ call.site = <<>>
    /\ outcome = "ok" /\ ret # <<>>

\* C8: the document created by init is empty with count 0 and has
\* created_at equal to updated_at, whatever the clock does while init runs.
C8_InitTimestampsEqual ==
    call.op = "init"
    => /\ store.entries = <<>>
       /\ store.metadata.count = 0
       /\ store.metadata.created_at = store.metadata.updated_at

\* C9: every successful add, update or delete sets metadata.updated_at to
\* the clock as the call last read it, and leaves metadata.count equal to the
\* number of entries: one more after add, one less after delete, the same
\* after update.
C9_MutationTouchesMetadata ==
    [][(call'.op \in Mutating /\ outcome' = "ok")
       => /\ clock' >= clock
          /\ store'.metadata.updated_at = current_time_in_ISO8601(clock')
          /\ store'.metadata.count = Cardinality(Keys(store'.entries))
          /\ store'.metadata.count = store.metadata.count
                + (CASE call'.op = "add" -> 1
                     [] call'.op = "delete" -> -1
                     [] OTHER -> 0)]_vars

\* A delete has succeeded in a later second than the store was created in.
C9_Witness ==
    /\ call.op = "delete" /\ outcome = "ok"
    /\ store.metadata.count = 1
    /\ store.metadata.updated_at # store.metadata.created_at

\* The keys of the entries whose key or username contains the keyword,
\* letter case apart.
Matching(entries, keyword) ==
    {entries[i].site : i \in {j \in 1..Len(entries) :
        \/ Contains(Lower(entries[j].site), Lower(keyword))
        \/ Contains(Lower(entries[j].username), Lower(keyword))}}

\* C10: search with a non-empty keyword returns exactly the keys of the
\* entries whose key or username contains the keyword, letter case apart,
\* each once, in ascending order; an empty or absent keyword returns the
\* empty sequence; search never changes the document.
C10_SearchResult ==
    [][call'.op = "search"
       => /\ store' = store
          /\ outcome' = "ok"
          /\ IF call'.keyword = None \/ call'.keyword = <<>>
             THEN ret' = <<>>
             ELSE /\ {ret'[i] : i \in 1..Len(ret')} = Matching(store.entries, call'.keyword)
                  /\ \A i \in 1..(Len(ret') - 1) : StrLess(ret'[i], ret'[i + 1])]_vars

\* A search has returned two keys, in the opposite of their insertion order,
\* one of them for an entry whose key and username both match.
C10_Witness ==
    /\ call.op = "search" /\ Len(ret) = 2
    /\ Len(store.entries) = 2 /\ store.entries[1].site = ret[2]
    /\ \E i \in 1..2 :
          /\ Contains(Lower(store.entries[i].site), Lower(call.keyword))
          /\ Contains(Lower(store.entries[i].username), Lower(call.keyword))

\* The items of a loaded document that validation has accepted.
AcceptedItems == raw.v["entries"].v

\* The document has the declared structure and types, and its count is the
\* number of its entries; nothing is asked of the strings' contents.
WellTyped(doc) ==
    /\ doc.t = "dict"
    /\ {"metadata", "entries"} \subseteq DOMAIN doc.v
    /\ doc.v["metadata"].t = "dict" /\ doc.v["entries"].t = "dict"
    /\ LET meta == doc.v["metadata"].v
           items == doc.v["entries"].v
       IN /\ {"version", "created_at", "updated_at", "count"} \subseteq DOMAIN meta
          /\ meta["version"].t \in {"int", "bool"}
          /\ meta["count"].t \in {"int", "bool"}
          /\ meta["created_at"].t = "str" /\ meta["updated_at"].t = "str"
          /\ \A i \in 1..Len(items) :
                /\ items[i].rec.t = "dict"
                /\ {"username", "password", "last_updated"} \subseteq DOMAIN items[i].rec.v
                /\ \A k \in {"username", "password", "last_updated"} :
                      items[i].rec.v[k].t = "str"
          /\ IntOf(meta["count"]) = Len(items)

\* C6 as claimed: the validator accepts only documents whose records all
\* have a non-empty username and a non-empty password.
C6_ValidatorRejectsEmptyCredentials ==
    verdict = Accepted
    => \A i \in 1..Len(AcceptedItems) :
          /\ AcceptedItems[i].rec.v["username"].v # <<>>
          /\ AcceptedItems[i].rec.v["password"].v # <<>>

\* C6 as amended: on load the validator checks presence and types only: it
\* accepts a loaded document exactly when metadata and every record have
\* their fields with the declared types and metadata.count is the number of
\* entries, also when a username or a password is the empty string.
C6_ValidatorChecksTypesOnly ==
    verdict # Pending => (verdict = Accepted <=> WellTyped(raw))

\* A document with an empty username and an empty password has been accepted.
C6_Witness ==
    /\ verdict = Accepted
    /\ \E i \in 1..Len(AcceptedItems) :
          /\ AcceptedItems[i].rec.v["username"].v = <<>>
          /\ AcceptedItems[i].rec.v["password"].v = <<>>

(* C11: a command that fails, and every get, list, search and stats, leaves *)
(* the store file as it was: only init and a successful add, update or      *)
(* delete write it.  As stated: whenever a run changes the store file, the  *)
(* run was init, or an add, update or delete that succeeded.                *)
C11_FileWrittenOnlyBySavingCommands ==
    [][disk' # disk =>
          \/ call'.op = "init"
          \/ call'.op \in SavingCommands /\ outcome' = "ok"]_vars

(* C12: every document that init or a successful add, update or delete has *)
(* written is a document load_store decodes and validate_store_schema       *)
(* accepts (all fields present with their types, metadata.count the number  *)
(* of entries), and the next run that loads it does accept it.              *)
Written == call.op \in {"init"} \cup SavingCommands /\ outcome = "ok"

C12_WrittenDocumentLoads ==
    [][(Written' =>
            /\ load_store(disk').outcome = "ok"
            /\ validate_store_schema(load_store(disk').doc) = Accepted
            /\ WellTyped(disk')
            /\ IntOf(disk'.v["metadata"].v["count"]) = Len(disk'.v["entries"].v))
       /\ ((Written /\ call'.op # "init") =>
            /\ raw' = disk
            /\ verdict' = Accepted)]_vars

\* A delete that loaded a document of two entries, written by the runs
\* before it, and wrote the document of the one that is left.
C12_Witness ==
    /\ call.op = "delete"
    /\ outcome = "ok"
    /\ verdict = Accepted
    /\ raw.t = "dict"
    /\ Len(raw.v["entries"].v) = 2
    /\ disk = json_dump(store)
    /\ Len(store.entries) = 1

====
